---- MODULE Spec2Model ----
(***************************************************************************)
(* Model of the Hesiod core: the dependency graph (core/graph.py), the     *)
(* execution cache and the incremental scheduler (core/runtime.py), with   *)
(* the primitive node handlers (nodes/primitives.py).                      *)
(***************************************************************************)
EXTENDS Integers, Sequences, FiniteSets, TLC

\* ---------------------------------------------------------------- bounds
MaxOps == 5        \* Spec: graph mutations in one behaviour
Budget == 7        \* Spec: mutations + twice the evaluate calls
GraphOps == 6      \* SpecGraph: graph mutations in one behaviour
SessionOps == 6    \* SpecSession: graph mutations in one behaviour
SessionCalls == 2  \* SpecSession: evaluate calls in one behaviour
FaultOps == 4      \* SpecFaults: graph mutations in one behaviour
FaultCalls == 2    \* SpecFaults: evaluate calls in one behaviour
CacheOps == 4      \* SpecCache: direct cache calls and node additions
CacheRuns == 2     \* SpecCache: evaluate calls in one behaviour
RegistryOps == 3   \* SpecRegistry: registry calls in one behaviour
ProjectOps == 6    \* SpecProject: graph mutations in one behaviour
ReuseOps == 5      \* SpecReuse: graph mutations in one behaviour
ReuseCalls == 2    \* SpecReuse: evaluate calls in one behaviour
SignCalls == 2     \* SpecSignature: _make_signature calls in one behaviour
SignOps == 1       \* SpecSignature: graph and cache calls in one behaviour

\* ------------------------------------------------------- small input sets
Keys == {"n1", "n2", "n3"}
\* Keys are interchangeable names: a behaviour introduces them in this order.
KeyNo == [k \in Keys |-> IF k = "n1" THEN 1 ELSE IF k = "n2" THEN 2 ELSE 3]
Ports == {"lhs", "rhs"}
Values == {1, 2}
\* parameter value of a node when it is added
InitialValue == CHOOSE v \in Values : \A w \in Values : v <= w
TConstant == "primitives.constant"
TAdd == "math.add"
TEmpty == "test.empty"
Types == {TConstant, TAdd, TEmpty}
\* Node types whose evaluation fails: a filter that expects a HeightMap input
\* (every value of this model is a scalar), a handler whose result is not a
\* mapping, and a type no handler is registered for.
TBoxBlur == "filter.box_blur"
TNonMapping == "test.non_mapping"
TUnregistered == "custom.unregistered"
FaultTypes == {TBoxBlur, TNonMapping, TUnregistered}

VARIABLES
    nodes,             \* Graph.nodes: key -> [type, parameters]
    connections,       \* Graph._connections: target -> (port -> Connection)
    dependents,        \* Graph._dependents: source -> set of targets
    dirty,             \* Graph._dirty
    handlers,          \* NodeRegistry._handlers: lower-case name -> definition
    cache_values,      \* ExecutionCache._values
    cache_signatures,  \* ExecutionCache._signatures
    pc,                \* "idle" | "running" (inside evaluate) | "done"
    call,              \* arguments of the call in progress / last returned
    result_nodes,      \* evaluate: result_nodes
    execution_order,   \* evaluate: execution_order / topological_order result
    index,             \* evaluate: loop position (1-based)
    results,           \* evaluate: pass-local results
    outcome,           \* how the last call ended
    returned,          \* mapping returned by the last evaluate
    log,               \* handler invocations, cache reuses, progress calls
    pre,               \* dirty set and cache at the start of the call
    prev,              \* summary of the evaluate call before this one
    upd,               \* the parameter edits (node keys) since that call
    used,              \* how many of the keys have been introduced so far
    ops,               \* number of graph mutations so far
    calls              \* number of calls so far

graphVars == <<nodes, connections, dependents, dirty>>
cacheVars == <<cache_values, cache_signatures>>
callVars == <<pc, call, result_nodes, execution_order, index, results,
              outcome, returned, log, pre>>
histVars == <<prev, upd>>
vars == <<nodes, connections, dependents, dirty, cache_values,
          cache_signatures, pc, call, result_nodes, execution_order, index,
          results, outcome, returned, log, pre, prev, upd, used, ops, calls,
          handlers>>

\* ------------------------------------------------------ mapping helpers
EmptyMap == [x \in {} |-> x]
\* variant: an item assignment that keeps an entry already present
PutIfAbsent(f, k, v) ==
    [x \in (DOMAIN f) \cup {k} |-> IF x \in DOMAIN f THEN f[x] ELSE v]
Put(f, k, v) == [x \in (DOMAIN f) \cup {k} |-> IF x = k THEN v ELSE f[x]]
Drop(f, k) == [x \in (DOMAIN f) \ {k} |-> f[x]]
Range(s) == {s[i] : i \in DOMAIN s}
Perms(S) == {s \in [1..Cardinality(S) -> S] :
                \A i, j \in 1..Cardinality(S) : i # j => s[i] # s[j]}

\* ------------------------------------------------------------ Graph
Connection(source_node, source_port) ==
    [source_node |-> source_node, source_port |-> source_port]

ParamName(type) == IF type = TConstant THEN "value" ELSE "rhs"
\* title: str | None = None
NoTitle == "None"
Titles == {NoTitle, "Constant"}
Node(type, value) ==
    [type |-> type, title |-> NoTitle,
     parameters |-> (ParamName(type) :> value), metadata |-> EmptyMap]

inputs_for(node_key) ==
    IF node_key \in DOMAIN connections THEN connections[node_key] ELSE EmptyMap

dependencies_of(node_key) ==
    {inputs_for(node_key)[p].source_node : p \in DOMAIN inputs_for(node_key)}

dependents_of(node_key) == dependents[node_key]

\* inputs_for on a given connection table
InputsIn(conns, node_key) ==
    IF node_key \in DOMAIN conns THEN conns[node_key] ELSE EmptyMap

\* mark_dirty as a function of the graph state it runs in
MarkDirtyIn(ns, deps, d, node_key) ==
    IF node_key \in DOMAIN ns THEN d \cup {node_key} \cup deps[node_key] ELSE d

mark_dirty(node_key) == MarkDirtyIn(nodes, dependents, dirty, node_key)

\* variant: a clear_dirty that empties the dirty set
clear_dirty_all(d, node_key) == {}
\* variant: a dirty set that clear_dirty never shrinks
clear_dirty_kept(d, node_key) == d
clear_dirty(d, node_key) == d \ {node_key}

NoCall == [op |-> "none", given |-> FALSE, targets |-> {}, force |-> FALSE,
           memo |-> TRUE, progress |-> FALSE]
NoPre == [dirty |-> {}, values |-> EmptyMap, signatures |-> EmptyMap]
NoPrev == [valid |-> FALSE, ok |-> FALSE, given |-> FALSE, targets |-> {},
           force |-> FALSE, memo |-> TRUE, order |-> {}, invoked |-> <<>>,
           uncached |-> {}, returned |-> EmptyMap]
NoOutcome == [type |-> "none", kind |-> "none", source |-> "", node |-> ""]
Ok == [type |-> "ok", kind |-> "ok", source |-> "", node |-> ""]
Error(type, kind, source, node) ==
    [type |-> type, kind |-> kind, source |-> source, node |-> node]

\* The types of the scheduler's registry
Registered == Types \cup {TBoxBlur, TNonMapping}

\* --------------------------------------------------------- NodeRegistry
\* The names a caller passes to the registry: names in lower case and the
\* same names written with capitals.
RegistryNames ==
    {"custom.node", "Custom.Node", "CUSTOM.NODE", "test.constant",
     "Test.Constant", "primitives.constant", "Primitives.Constant",
     "test.empty"}

\* str.lower() on these names
Lower(node_type) ==
    CASE node_type = "Custom.Node" -> "custom.node"
      [] node_type = "CUSTOM.NODE" -> "custom.node"
      [] node_type = "Test.Constant" -> "test.constant"
      [] node_type = "Primitives.Constant" -> "primitives.constant"
      [] OTHER -> node_type

\* metadata: NodeMetadata | None
NoMetadata == [some |-> FALSE, type |-> ""]
NodeMetadata(type) == [some |-> TRUE, type |-> type]
MetadataChoices(node_type) == {NoMetadata, NodeMetadata(node_type)}
NodeDefinition(handler, metadata) ==
    [handler |-> handler, metadata |-> metadata]

\* the handler functions a caller registers
HandlerChoices == {"handler", "counting_constant"}

\* The registry after the register_* functions of the node modules and the
\* handlers of the tests: the production types come with metadata.
InitialHandlers ==
    [t \in Registered |->
       NodeDefinition(t, IF t \in {TEmpty, TNonMapping} THEN NoMetadata
                         ELSE NodeMetadata(t))]

\* NodeRegistry.__contains__
Contains(h, node_type) == Lower(node_type) \in DOMAIN h

\* variant: a register that replaces the definition that is there
RegisterReplacing(h, node_type, handler, metadata) ==
    [raises |-> FALSE,
     handlers |-> Put(h, Lower(node_type), NodeDefinition(handler, metadata))]

\* NodeRegistry.register
RegistryRegister(h, node_type, handler, metadata) ==
    LET key == Lower(node_type)
    IN  IF key \in DOMAIN h THEN [raises |-> TRUE, handlers |-> h]
        ELSE [raises |-> FALSE,
              handlers |-> Put(h, key, NodeDefinition(handler, metadata))]

\* NodeRegistry.get
RegistryGet(h, node_type) ==
    LET key == Lower(node_type)
    IN  IF key \notin DOMAIN h
        THEN [raises |-> TRUE, kind |-> "no_handler",
              val |-> NodeDefinition("", NoMetadata)]
        ELSE [raises |-> FALSE, kind |-> "", val |-> h[key]]

\* variant: a describe that hands back whatever the definition holds
DescribeWithoutCheck(h, node_type) ==
    LET definition == RegistryGet(h, node_type)
    IN  [raises |-> definition.raises, kind |-> definition.kind,
         val |-> definition.val.metadata]

\* NodeRegistry.describe
RegistryDescribe(h, node_type) ==
    LET definition == RegistryGet(h, node_type)
    IN  IF definition.raises
        THEN [raises |-> TRUE, kind |-> definition.kind, val |-> NoMetadata]
        ELSE IF ~definition.val.metadata.some
        THEN [raises |-> TRUE, kind |-> "no_metadata", val |-> NoMetadata]
        ELSE [raises |-> FALSE, kind |-> "", val |-> definition.val.metadata]

\* NodeRegistry.metadata: what the generator yields, as a set
RegistryMetadata(h) ==
    {h[key].metadata : key \in {k \in DOMAIN h : h[k].metadata.some}}

Init ==
    /\ nodes = EmptyMap
    /\ connections = EmptyMap
    /\ dependents = [k \in Keys |-> {}]
    /\ dirty = {}
    /\ cache_values = EmptyMap
    /\ cache_signatures = EmptyMap
    /\ pc = "idle"
    /\ call = NoCall
    /\ result_nodes = {}
    /\ execution_order = <<>>
    /\ index = 0
    /\ results = EmptyMap
    /\ outcome = NoOutcome
    /\ returned = EmptyMap
    /\ log = <<>>
    /\ pre = NoPre
    /\ prev = NoPrev
    /\ upd = <<>>
    /\ used = 0
    /\ handlers = InitialHandlers
    /\ ops = 0
    /\ calls = 0

\* The record of a direct call of _make_signature
SignatureEvent(e) == e.ev = "signature"

\* A graph mutation runs between calls; it forgets the observations of the
\* last call (the record of direct _make_signature calls stays).
Mutation ==
    /\ pc \in {"idle", "done"}
    /\ ops' = ops + 1
    /\ pc' = "idle"
    /\ call' = NoCall
    /\ result_nodes' = {}
    /\ execution_order' = <<>>
    /\ index' = 0
    /\ results' = EmptyMap
    /\ outcome' = NoOutcome
    /\ returned' = EmptyMap
    /\ log' = SelectSeq(log, SignatureEvent)
    /\ pre' = NoPre
    /\ UNCHANGED <<cacheVars, calls>>

\* What a later call may compare itself with: the call that just returned.
Invoked(l) == SelectSeq(l, LAMBDA e : e.ev = "invoke")
Summary ==
    [valid |-> TRUE, ok |-> outcome.type = "ok", given |-> call.given,
     targets |-> call.targets, force |-> call.force, memo |-> call.memo,
     order |-> Range(execution_order), invoked |-> Invoked(log),
     uncached |-> Range(execution_order) \ DOMAIN pre.signatures,
     returned |-> returned]
AfterEvaluate == pc = "done" /\ call.op = "evaluate"

\* Any mutation but a parameter change ends the comparison.
Forget == prev' = NoPrev /\ upd' = <<>>

\* Graph.add_node; raises GraphError (nothing changes) on a duplicate key.
AddNode(key, node) ==
    /\ Mutation
    /\ key \notin DOMAIN nodes
    /\ KeyNo[key] <= used + 1
    /\ used' = IF KeyNo[key] > used THEN KeyNo[key] ELSE used
    /\ UNCHANGED handlers
    /\ nodes' = Put(nodes, key, node)
    /\ dirty' = MarkDirtyIn(nodes', dependents, dirty, key)
    /\ UNCHANGED <<connections, dependents>>
    /\ Forget

\* add_node of a node built with the default title and metadata
add_node(key, type, value) == AddNode(key, Node(type, value))

\* The loop of Graph.remove_node over the recorded dependents of node_key,
\* taken in the order todo (a set is iterated in an arbitrary order).
RECURSIVE RemoveLoop(_, _, _, _, _)
RemoveLoop(node_key, todo, conns, deps, d) ==
    IF todo = <<>>
    THEN [connections |-> conns, dependents |-> deps, dirty |-> d]
    ELSE LET target == Head(todo)
             cur == IF target \in DOMAIN conns THEN conns[target] ELSE EmptyMap
             gone == {p \in DOMAIN cur : cur[p].source_node = node_key}
             kept == [p \in (DOMAIN cur) \ gone |-> cur[p]]
             conns2 == IF DOMAIN kept = {} THEN Drop(conns, target)
                       ELSE Put(conns, target, kept)
             d2 == IF gone # {} THEN MarkDirtyIn(nodes, deps, d, target) ELSE d
             deps2 == [deps EXCEPT ![node_key] = @ \ {target}]
         IN  RemoveLoop(node_key, Tail(todo), conns2, deps2, d2)

\* Graph.remove_node; raises GraphError (nothing changes) on an absent key.
remove_node(node_key) ==
    /\ Mutation
    /\ UNCHANGED <<used, handlers>>
    /\ node_key \in DOMAIN nodes
    /\ \E todo \in Perms(dependents[node_key]) :
         LET after == RemoveLoop(node_key, todo, connections, dependents, dirty)
             nodes2 == Drop(nodes, node_key)
             deps2 == [after.dependents EXCEPT ![node_key] = {}]
         IN  /\ nodes' = nodes2
             /\ connections' = Drop(after.connections, node_key)
             /\ dependents' = deps2
             /\ dirty' = MarkDirtyIn(nodes2, deps2, after.dirty, node_key)
    /\ Forget

\* Graph.connect; raises GraphError (nothing changes) on an absent endpoint.
connect(source_node, source_port, target_node, target_port) ==
    /\ Mutation
    /\ UNCHANGED <<used, handlers>>
    /\ source_node \in DOMAIN nodes
    /\ target_node \in DOMAIN nodes
    /\ connections' = Put(connections, target_node,
                          Put(inputs_for(target_node), target_port,
                              Connection(source_node, source_port)))
    /\ dependents' = [dependents EXCEPT ![source_node] = @ \cup {target_node}]
    /\ dirty' = MarkDirtyIn(nodes, dependents', dirty, target_node)
    /\ UNCHANGED nodes
    /\ Forget

\* Graph.disconnect; a no-op when nothing is connected to the port.
disconnect(node, port) ==
    /\ Mutation
    /\ UNCHANGED <<used, handlers>>
    /\ port \in DOMAIN inputs_for(node)
    /\ LET source == connections[node][port].source_node
           kept == Drop(connections[node], port)
       IN  /\ connections' = IF DOMAIN kept = {} THEN Drop(connections, node)
                             ELSE Put(connections, node, kept)
           /\ dependents' = [dependents EXCEPT ![source] = @ \ {node}]
           /\ dirty' = MarkDirtyIn(nodes, dependents', dirty, node)
    /\ UNCHANGED nodes
    /\ Forget

\* variant: a rejected call that has marked the key dirty before it raises
GraphRaiseAfterMarking(op, kind, key) ==
    /\ pc = "idle"
    /\ pc' = "done"
    /\ call' = [NoCall EXCEPT !.op = op]
    /\ outcome' = Error("GraphError", kind, "", key)
    /\ dirty' = dirty \cup {key}
    /\ UNCHANGED <<nodes, connections, dependents, cacheVars, result_nodes,
                   execution_order, index, results, returned, log, pre,
                   histVars, used, ops, calls, handlers>>

\* A mutator raises GraphError before it has assigned anything.
GraphRaise(op, kind, key) ==
    /\ pc = "idle"
    /\ pc' = "done"
    /\ call' = [NoCall EXCEPT !.op = op]
    /\ outcome' = Error("GraphError", kind, "", key)
    /\ UNCHANGED <<graphVars, cacheVars, result_nodes, execution_order, index,
                   results, returned, log, pre, histVars, used, ops, calls, handlers>>

\* Graph.add_node with a key already present
add_node_rejected(key) ==
    /\ key \in DOMAIN nodes
    /\ GraphRaise("add_node", "exists", key)

\* Graph.remove_node of an absent key
remove_node_rejected(node_key) ==
    /\ node_key \notin DOMAIN nodes
    /\ GraphRaise("remove_node", "absent", node_key)

\* Graph.connect with an absent source or, the source present, an absent target
connect_rejected(source_node, target_node) ==
    IF source_node \notin DOMAIN nodes
    THEN GraphRaise("connect", "absent_source", source_node)
    ELSE /\ target_node \notin DOMAIN nodes
         /\ GraphRaise("connect", "absent_target", target_node)

\* A caller's Graph.mark_dirty; a no-op for a key that is not a node.
MarkDirty(node_key) ==
    /\ Mutation
    /\ UNCHANGED <<used, handlers>>
    /\ node_key \in DOMAIN nodes
    /\ dirty' = mark_dirty(node_key)
    /\ UNCHANGED <<nodes, connections, dependents>>
    /\ Forget

\* A parameter edit as callers do it: Node.update_parameters, then
\* Graph.mark_dirty of the edited node.
UpdateParameters(node_key, value) ==
    /\ Mutation
    /\ UNCHANGED <<used, handlers>>
    /\ node_key \in DOMAIN nodes
    /\ nodes' = [nodes EXCEPT ![node_key].parameters =
                    Put(@, ParamName(nodes[node_key].type), value)]
    /\ dirty' = mark_dirty(node_key)
    /\ UNCHANGED <<connections, dependents>>
    /\ IF nodes'[node_key] = nodes[node_key]
       THEN Forget
       ELSE IF AfterEvaluate
            THEN prev' = Summary /\ upd' = <<node_key>>
            ELSE IF prev.valid
                 THEN prev' = prev /\ upd' = Append(upd, node_key)
                 ELSE Forget

\* ------------------------------------------------- Graph.topological_order
\* TopologicalSorter.add(node, *predecessors): the node and each predecessor
\* become nodes of the sorter, the node gains the predecessors.
SorterAdd(sorter, node_key, deps) ==
    [x \in (DOMAIN sorter) \cup {node_key} \cup deps |->
        (IF x \in DOMAIN sorter THEN sorter[x] ELSE {})
        \cup (IF x = node_key THEN deps ELSE {})]

\* Graph._add_dependencies_recursive on st = [visited, sorter]
RECURSIVE AddDependenciesRecursive(_, _)
RECURSIVE AddEach(_, _)
AddDependenciesRecursive(node_key, st) ==
    IF node_key \in st.visited THEN st
    ELSE LET deps == dependencies_of(node_key)
         IN  AddEach(deps, [visited |-> st.visited \cup {node_key},
                            sorter |-> SorterAdd(st.sorter, node_key, deps)])
AddEach(todo, st) ==
    IF todo = {} THEN st
    ELSE LET dep == CHOOSE x \in todo : TRUE
         IN  AddEach(todo \ {dep}, AddDependenciesRecursive(dep, st))

\* variant: a sorter without cycle detection, which emits the nodes that can
\* never become ready in some order
RECURSIVE StaticOrdersWithoutCycleError(_, _)
StaticOrdersWithoutCycleError(sorter, done) ==
    LET remaining == (DOMAIN sorter) \ done
        ready == {n \in remaining : sorter[n] \subseteq done}
    IN  IF remaining = {} THEN {<<>>}
        ELSE IF ready = {} THEN Perms(remaining)
        ELSE {p \o rest : p \in Perms(ready),
                          rest \in StaticOrdersWithoutCycleError(sorter, done \cup ready)}

\* variant: a sorter that ignores the predecessors and emits the nodes in any
\* order
StaticOrdersUnordered(sorter, done) == Perms((DOMAIN sorter) \ done)

\* TopologicalSorter.static_order: the nodes whose predecessors are all done
\* are emitted together, batch after batch; the order inside a batch follows
\* set iteration and is arbitrary.  No order at all (CycleError) when some
\* node can never become ready.
RECURSIVE StaticOrders(_, _)
StaticOrders(sorter, done) ==
    LET remaining == (DOMAIN sorter) \ done
        ready == {n \in remaining : sorter[n] \subseteq done}
    IN  IF remaining = {} THEN {<<>>}
        ELSE IF ready = {} THEN {}
        ELSE {p \o rest : p \in Perms(ready),
                          rest \in StaticOrders(sorter, done \cup ready)}

\* Graph.topological_order(limit_to): the set of orders it may return; the
\* empty set stands for GraphError("Graph contains a cycle").
\* variant: an order that always covers the whole graph
TopologicalOrderIgnoringLimit(given, limit_to) ==
    LET st == AddEach(DOMAIN nodes, [visited |-> {}, sorter |-> EmptyMap])
    IN  StaticOrders(st.sorter, {})

topological_order(given, limit_to) ==
    LET target_nodes == IF given THEN limit_to \cap DOMAIN nodes ELSE DOMAIN nodes
        st == AddEach(target_nodes, [visited |-> {}, sorter |-> EmptyMap])
    IN  IF given /\ target_nodes = {} THEN {<<>>}
        ELSE StaticOrders(st.sorter, {})

\* ------------------------------------------------------- ExecutionCache
cache_get(values, node_key) ==
    IF node_key \in DOMAIN values THEN [some |-> TRUE, val |-> values[node_key]]
    ELSE [some |-> FALSE, val |-> EmptyMap]

is_valid(signatures, node_key, signature) ==
    node_key \in DOMAIN signatures /\ signatures[node_key] = signature

\* variant: a store that keeps the signature that is already there
StoreKeepingSignature(values, signatures, node_key, signature, outputs) ==
    [values |-> Put(values, node_key, outputs),
     signatures |-> PutIfAbsent(signatures, node_key, signature)]

\* ExecutionCache.store: both mappings get the entry of node_key
store(values, signatures, node_key, signature, outputs) ==
    [values |-> Put(values, node_key, outputs),
     signatures |-> Put(signatures, node_key, signature)]

\* variant: an invalidate that forgets the outputs and keeps the signature
InvalidateValuesOnly(values, signatures, node_key) ==
    [values |-> Drop(values, node_key), signatures |-> signatures]

\* ExecutionCache.invalidate: pop(node_key, None) on both mappings
invalidate(values, signatures, node_key) ==
    [values |-> Drop(values, node_key),
     signatures |-> Drop(signatures, node_key)]

\* ExecutionCache.clear
clear == [values |-> EmptyMap, signatures |-> EmptyMap]

\* ------------------------------------------------------------ handlers
Get(m, k, default) == IF k \in DOMAIN m THEN m[k] ELSE default
\* _coerce_scalar: numbers pass (floats are modelled by integers)
CoerceScalar(value, default) == IF value \in Int THEN value ELSE default

\* The registered handlers: _constant_node, _add_node and a handler that
\* returns an empty mapping.
Handler(type, parameters, inputs) ==
    IF type = TConstant
    THEN "output" :> CoerceScalar(Get(parameters, "value", 0), 0)
    ELSE IF type = TAdd
    THEN LET lhs_default == CoerceScalar(Get(parameters, "lhs", 0), 0)
             rhs_default == CoerceScalar(Get(parameters, "rhs", 0), 0)
             lhs == CoerceScalar(Get(inputs, "lhs", lhs_default), lhs_default)
             rhs == CoerceScalar(Get(inputs, "rhs", rhs_default), rhs_default)
         IN  "output" :> (lhs + rhs)
    ELSE EmptyMap

\* variant: a handler call whose exception is swallowed for an empty result
InvokeSwallowing(type, node_key, parameters, inputs) ==
    [kind |-> "mapping", message |-> <<>>,
     val |-> IF type \in Types THEN Handler(type, parameters, inputs)
             ELSE EmptyMap]

\* handler(node, input_values, context) as evaluate sees it: a mapping, a
\* result of another shape, or an exception with its message.  _box_blur
\* raises the TypeError of _expect_heightmap on every scalar or absent input.
Invoke(type, node_key, parameters, inputs) ==
    IF type = TBoxBlur
    THEN [kind |-> "raises", val |-> EmptyMap,
          message |-> <<"expected a HeightMap input", node_key>>]
    ELSE IF type = TNonMapping
    THEN [kind |-> "non_mapping", val |-> EmptyMap, message |-> <<>>]
    ELSE [kind |-> "mapping", val |-> Handler(type, parameters, inputs),
          message |-> <<>>]

\* _normalise_value on a mapping of names to numbers: the same entries under
\* their keys in sorted order (a function has no entry order)
NormaliseValue(m) == [k \in DOMAIN m |-> m[k]]

\* variant: a signature that leaves the input values out
MakeSignatureOfNodeOnly(node_key, node, inputs) ==
    [node |-> node_key, type |-> node.type,
     parameters |-> NormaliseValue(node.parameters),
     inputs |-> EmptyMap]

\* _make_signature: the digest is modelled by the payload it digests
MakeSignature(node_key, node, inputs) ==
    [node |-> node_key, type |-> node.type,
     parameters |-> NormaliseValue(node.parameters),
     inputs |-> NormaliseValue(inputs)]

\* variant: a use_cache that does not look at force
UseCacheIgnoringForce(force, memo, node_key, d, signatures, signature) ==
    /\ memo
    /\ node_key \notin d
    /\ is_valid(signatures, node_key, signature)

\* evaluate: use_cache
UseCache(force, memo, node_key, d, signatures, signature) ==
    /\ ~force
    /\ memo
    /\ node_key \notin d
    /\ is_valid(signatures, node_key, signature)

\* _collect_inputs: source_outputs = current_outputs or cached_outputs
SourceOutputs(source_node, res) ==
    IF source_node \in DOMAIN res /\ res[source_node] # EmptyMap
    THEN [some |-> TRUE, val |-> res[source_node]]
    ELSE cache_get(cache_values, source_node)

\* ------------------------------------------------ GraphScheduler.evaluate
\* variant: a progress callback that is handed the count of the next node
ProgressCountingAhead(i, total, node_key) ==
    [ev |-> "progress", node |-> node_key, i |-> i + 1, total |-> total]
Progress(i, total, node_key) ==
    [ev |-> "progress", node |-> node_key, i |-> i, total |-> total]
Event(ev, node_key, i, total) ==
    [ev |-> ev, node |-> node_key, i |-> i, total |-> total]

Begin(op, given, targets, force, memo, progress) ==
    /\ pc \in {"idle", "done"}
    /\ call' = [op |-> op, given |-> given, targets |-> targets,
                force |-> force, memo |-> memo, progress |-> progress]
    /\ pre' = [dirty |-> dirty, values |-> cache_values,
               signatures |-> cache_signatures]
    /\ results' = EmptyMap
    /\ UNCHANGED <<graphVars, cacheVars, used, ops, handlers>>

\* SchedulerError(f"Node '{node.key}' failed: {exc}")
NodeFailed(node_key, message) ==
    [type |-> "SchedulerError", kind |-> "node_failed", source |-> "",
     node |-> node_key, message |-> message]

\* variant: an evaluate without the early return
EmptyResultIgnored(rn) == FALSE
\* evaluate: if not result_nodes
EmptyResult(rn) == rn = {}

\* evaluate up to the loop: result_nodes, execution_order, progress(0, ...)
EvalStart(given, targets, force, memo, progress) ==
    /\ Begin("evaluate", given, targets, force, memo, progress)
    /\ calls' = calls + 1
    /\ IF AfterEvaluate THEN prev' = Summary /\ upd' = <<>>
       ELSE IF pc = "done" THEN Forget ELSE UNCHANGED histVars
    /\ LET rn == IF given THEN targets \cap DOMAIN nodes ELSE DOMAIN nodes
           orders == topological_order(TRUE, rn)
       IN  /\ result_nodes' = rn
           /\ IF EmptyResult(rn)
              THEN /\ pc' = "done" /\ outcome' = Ok /\ returned' = EmptyMap
                   /\ execution_order' = <<>> /\ index' = 0 /\ log' = <<>>
              ELSE IF orders = {}
              THEN /\ pc' = "done"
                   /\ outcome' = Error("GraphError", "cycle", "", "")
                   /\ returned' = EmptyMap
                   /\ execution_order' = <<>> /\ index' = 0 /\ log' = <<>>
              ELSE \E order \in orders :
                   /\ pc' = "running" /\ outcome' = NoOutcome
                   /\ returned' = EmptyMap
                   /\ execution_order' = order /\ index' = 1
                   /\ log' = IF progress THEN <<Progress(0, Len(order), "")>>
                             ELSE <<>>

\* variant: a return statement that hands back the whole pass-local results
ReturnedEverything(rn, res) == res

\* evaluate: the mapping of the return statement
ReturnedMapping(rn, res) == [n \in rn \cap DOMAIN res |-> res[n]]

\* variant: a failing call that discards the node it failed on
RaiseDiscardingNode(err) ==
    /\ pc' = "done"
    /\ outcome' = err
    /\ nodes' = Drop(nodes, execution_order[index])
    /\ UNCHANGED <<connections, dependents, dirty, cacheVars, results, log,
                   index, returned>>

\* the call raises: nothing else changes
Raise(err) ==
    /\ pc' = "done"
    /\ outcome' = err
    /\ UNCHANGED <<graphVars, cacheVars, results, log, index, returned>>

\* results[node_key] = outputs; clear_dirty; progress; then the next node or
\* the return statement
Complete(node_key, outputs, ev) ==
    LET total == Len(execution_order)
        res == Put(results, node_key, outputs)
    IN  /\ results' = res
        /\ dirty' = clear_dirty(dirty, node_key)
        /\ log' = log \o <<Event(ev, node_key, index, total)>>
                      \o (IF call.progress
                          THEN <<Progress(index, total, node_key)>> ELSE <<>>)
        /\ UNCHANGED <<nodes, connections, dependents>>
        /\ IF index = total
           THEN /\ pc' = "done" /\ outcome' = Ok /\ index' = index
                /\ returned' = ReturnedMapping(result_nodes, res)
           ELSE /\ pc' = "running" /\ outcome' = NoOutcome
                /\ index' = index + 1 /\ returned' = returned

\* one iteration of the loop of evaluate
EvalStep ==
    /\ pc = "running"
    /\ UNCHANGED <<call, result_nodes, execution_order, pre, histVars,
                   used, ops, calls, handlers>>
    /\ LET node_key == execution_order[index]
       IN  IF node_key \notin DOMAIN nodes
           THEN Raise(Error("KeyError", "nodes", node_key, node_key))
           ELSE
           LET node == nodes[node_key]
               conns == inputs_for(node_key)
               src(p) == SourceOutputs(conns[p].source_node, results)
               missing == {p \in DOMAIN conns : ~src(p).some}
               noport == {p \in DOMAIN conns :
                            /\ src(p).some
                            /\ conns[p].source_port \notin DOMAIN src(p).val}
           IN  IF missing \cup noport # {}
               THEN \E p \in missing \cup noport :
                      Raise(Error("SchedulerError",
                                  IF p \in missing THEN "missing_outputs"
                                  ELSE "missing_port",
                                  conns[p].source_node, node_key))
               ELSE
               LET input_values ==
                       [p \in DOMAIN conns |-> src(p).val[conns[p].source_port]]
                   signature == MakeSignature(node_key, node, input_values)
                   use_cache == UseCache(call.force, call.memo, node_key,
                                         dirty, cache_signatures, signature)
               IN  IF use_cache
                   THEN IF ~cache_get(cache_values, node_key).some
                        THEN Raise(Error("SchedulerError", "cache_miss",
                                         "", node_key))
                        ELSE /\ Complete(node_key,
                                         cache_get(cache_values, node_key).val,
                                         "hit")
                             /\ UNCHANGED cacheVars
                   ELSE IF ~Contains(handlers, node.type)
                   THEN Raise(Error("RegistryError", "unknown_type",
                                    "", node_key))
                   ELSE LET result == Invoke(node.type, node_key,
                                             node.parameters, input_values)
                            outputs == result.val
                        IN  IF result.kind = "raises"
                            THEN Raise(NodeFailed(node_key, result.message))
                            ELSE IF result.kind # "mapping"
                            THEN Raise(Error("SchedulerError", "non_mapping",
                                             "", node_key))
                            ELSE
                            /\ Complete(node_key, outputs, "invoke")
                            /\ IF call.memo
                               THEN LET c == store(cache_values,
                                                   cache_signatures, node_key,
                                                   signature, outputs)
                                    IN  /\ cache_values' = c.values
                                        /\ cache_signatures' = c.signatures
                               ELSE UNCHANGED cacheVars

\* A caller's Graph.topological_order(limit_to=...)
TopologicalOrder(given, limit_to) ==
    /\ Begin("topological_order", given, limit_to, FALSE, TRUE, FALSE)
    /\ calls' = calls
    /\ Forget
    /\ result_nodes' = {} /\ index' = 0 /\ log' = <<>> /\ returned' = EmptyMap
    /\ pc' = "done"
    /\ LET orders == topological_order(given, limit_to)
       IN  IF orders = {}
           THEN /\ outcome' = Error("GraphError", "cycle", "", "")
                /\ execution_order' = <<>>
           ELSE \E order \in orders :
                /\ outcome' = Ok
                /\ execution_order' = order

\* The target sets a caller passes (keys that are not nodes are unknown keys)
TargetChoices == SUBSET Keys

Topology ==
    \/ \E key \in Keys, type \in Types : add_node(key, type, InitialValue)
    \/ \E key \in Keys : remove_node(key)
    \/ \E s \in Keys, t \in Keys, port \in Ports : connect(s, "output", t, port)
    \/ \E key \in Keys, port \in Ports : disconnect(key, port)
    \/ \E key \in Keys : MarkDirty(key)

Edit == \E key \in Keys, value \in Values : UpdateParameters(key, value)

\* The caller listens to the progress of every call.
Evaluate ==
    \E force \in BOOLEAN, memo \in BOOLEAN :
       \/ EvalStart(FALSE, {}, force, memo, TRUE)
       \/ \E targets \in TargetChoices :
            EvalStart(TRUE, targets, force, memo, TRUE)

Query ==
    \/ TopologicalOrder(FALSE, {})
    \/ \E limit_to \in TargetChoices : TopologicalOrder(TRUE, limit_to)

\* The scheduler on a graph under edit: any interleaving of mutations and
\* evaluate calls.
Next ==
    \/ ops < MaxOps /\ ops + calls + calls < Budget /\ Topology
    \/ ops < MaxOps /\ ops + calls + calls < Budget /\ Edit
    \/ ops + calls + calls + 1 < Budget /\ Evaluate
    \/ EvalStep

Spec == Init /\ [][Next]_vars

\* The mutator calls that end with GraphError
Rejected ==
    \/ \E key \in Keys : add_node_rejected(key)
    \/ \E key \in Keys : remove_node_rejected(key)
    \/ \E s \in Keys, t \in Keys : connect_rejected(s, t)

\* The graph alone: mutations of its structure, order queries and rejected
\* calls.  A query or a rejected call changes nothing in the graph, so a
\* behaviour that goes on after one is a behaviour that goes on without it:
\* it is followed no further.
NextGraph ==
    \/ ops < GraphOps /\ pc = "idle" /\ Topology
    \/ pc = "idle" /\ Query
    \/ Rejected

SpecGraph == Init /\ [][NextGraph]_vars

\* An editing session as GraphController drives it: the graph is built, then
\* evaluated with the default arguments, and between two evaluations only
\* parameters are edited.
NextSession ==
    \/ ops < SessionOps /\ calls = 0 /\ Topology
    \/ ops < SessionOps /\ Edit
    \/ calls < SessionCalls /\ EvalStart(FALSE, {}, FALSE, TRUE, TRUE)
    \/ EvalStep

SpecSession == Init /\ [][NextSession]_vars

\* Graphs with nodes whose evaluation fails.
AddFaulty == \E key \in Keys, type \in FaultTypes : add_node(key, type, InitialValue)

\* evaluate() of the whole graph, memoization enabled or disabled
EvaluateAll == \E memo \in BOOLEAN : EvalStart(FALSE, {}, FALSE, memo, TRUE)

NextFaults ==
    \/ ops < FaultOps /\ Topology
    \/ ops < FaultOps /\ AddFaulty
    \/ calls < FaultCalls /\ EvaluateAll
    \/ EvalStep

SpecFaults == Init /\ [][NextFaults]_vars

\* ------------------------------------------- the cache driven directly
\* The signatures and outputs a caller of store passes: digests of a constant
\* node under its parameter values, and output mappings of such a node.
Signatures ==
    {MakeSignature("n1", Node(TConstant, v), EmptyMap) : v \in Values}
Outputs == {[output |-> v] : v \in Values}

CacheEvent(e) == e.ev \in {"store", "invalidate", "clear", "signature"}

\* A direct call of the cache runs between two evaluate calls; log keeps the
\* direct calls made since the last graph mutation or evaluate call.
CacheCall(c, e) ==
    /\ pc \in {"idle", "done"}
    /\ cache_values' = c.values
    /\ cache_signatures' = c.signatures
    /\ log' = Append(SelectSeq(log, CacheEvent), e)
    /\ ops' = ops + 1
    /\ pc' = "idle"
    /\ call' = NoCall
    /\ result_nodes' = {}
    /\ execution_order' = <<>>
    /\ index' = 0
    /\ results' = EmptyMap
    /\ outcome' = NoOutcome
    /\ returned' = EmptyMap
    /\ pre' = NoPre
    /\ Forget
    /\ UNCHANGED <<graphVars, used, calls, handlers>>

Store(node_key, signature, outputs) ==
    CacheCall(store(cache_values, cache_signatures, node_key, signature,
                    outputs),
              [ev |-> "store", node |-> node_key, signature |-> signature,
               outputs |-> outputs])

Invalidate(node_key) ==
    CacheCall(invalidate(cache_values, cache_signatures, node_key),
              [ev |-> "invalidate", node |-> node_key])

Clear == CacheCall(clear, [ev |-> "clear", node |-> ""])

CacheCalls ==
    \/ \E k \in Keys, s \in Signatures, o \in Outputs : Store(k, s, o)
    \/ \E k \in Keys : Invalidate(k)
    \/ Clear

\* An ExecutionCache under direct calls and under the scheduler that owns it.
NextCache ==
    \/ ops < CacheOps /\ CacheCalls
    \/ ops < CacheOps /\ \E key \in Keys : add_node(key, TConstant, InitialValue)
    \/ calls < CacheRuns /\ EvalStart(FALSE, {}, FALSE, TRUE, TRUE)
    \/ EvalStep

SpecCache == Init /\ [][NextCache]_vars

\* --------------------------------------------- the registry under calls
\* A call of the registry: log keeps the calls in the order they were made,
\* outcome and returned hold the result of the last one.
RegistryCall(e, h, out, ret) ==
    /\ pc \in {"idle", "done"}
    /\ handlers' = h
    /\ log' = Append(log, e)
    /\ outcome' = out
    /\ returned' = ret
    /\ call' = [NoCall EXCEPT !.op = e.ev]
    /\ pc' = "done"
    /\ ops' = ops + 1
    /\ UNCHANGED <<graphVars, cacheVars, result_nodes, execution_order,
                   index, results, pre, histVars, used, calls>>

RegistryEvent(ev, node_type, handler, metadata) ==
    [ev |-> ev, node |-> node_type, handler |-> handler,
     metadata |-> metadata]

register(node_type, handler, metadata) ==
    LET r == RegistryRegister(handlers, node_type, handler, metadata)
    IN  RegistryCall(RegistryEvent("register", node_type, handler, metadata),
                     r.handlers,
                     IF r.raises
                     THEN Error("RegistryError", "duplicate", "", node_type)
                     ELSE Ok,
                     EmptyMap)

get(node_type) ==
    LET r == RegistryGet(handlers, node_type)
    IN  RegistryCall(RegistryEvent("get", node_type, "", NoMetadata),
                     handlers,
                     IF r.raises
                     THEN Error("RegistryError", r.kind, "", node_type)
                     ELSE Ok,
                     IF r.raises THEN EmptyMap ELSE r.val)

describe(node_type) ==
    LET r == RegistryDescribe(handlers, node_type)
    IN  RegistryCall(RegistryEvent("describe", node_type, "", NoMetadata),
                     handlers,
                     IF r.raises
                     THEN Error("RegistryError", r.kind, "", node_type)
                     ELSE Ok,
                     IF r.raises THEN EmptyMap ELSE r.val)

metadata ==
    RegistryCall(RegistryEvent("metadata", "", "", NoMetadata), handlers, Ok,
                 RegistryMetadata(handlers))

NextRegistry ==
    \/ ops < RegistryOps /\ \E t \in RegistryNames, h \in HandlerChoices :
                               \E md \in MetadataChoices(t) : register(t, h, md)
    \/ ops < RegistryOps /\ \E t \in RegistryNames : get(t)
    \/ ops < RegistryOps /\ \E t \in RegistryNames : describe(t)
    \/ ops < RegistryOps /\ metadata

SpecRegistry == Init /\ [][NextRegistry]_vars

\* ------------------------------------------------- ProjectSerializer
\* _graph_to_dict: the node entries and, for every node of the graph, its
\* inputs_for as a mapping of port names to source_node / source_port
GraphToDict(ns, conns) ==
    [nodes |-> {[key |-> k, type |-> ns[k].type, title |-> ns[k].title,
                 parameters |-> ns[k].parameters,
                 metadata |-> ns[k].metadata] : k \in DOMAIN ns},
     connections |->
        [k \in DOMAIN ns |->
           [p \in DOMAIN InputsIn(conns, k) |->
              [source_node |-> InputsIn(conns, k)[p].source_node,
               source_port |-> InputsIn(conns, k)[p].source_port]]]]

\* The (target, port) pairs of a payload, and the ones Graph.connect rejects
PayloadPorts(payload) ==
    {<<t, p>> : t \in DOMAIN payload.connections, p \in Ports}
      \cap {tp \in Keys \X Ports : /\ tp[1] \in DOMAIN payload.connections
                                   /\ tp[2] \in DOMAIN payload.connections[tp[1]]}

\* _graph_from_dict: a new Graph, add_node for every node entry, then connect
\* for every port entry; the GraphError of a connect ends the call
GraphFromDict(payload) ==
    LET ns == [k \in {n.key : n \in payload.nodes} |->
                 LET n == CHOOSE n \in payload.nodes : n.key = k
                 IN  [type |-> n.type, title |-> n.title,
                      parameters |-> n.parameters, metadata |-> n.metadata]]
        ports == PayloadPorts(payload)
        source(tp) == payload.connections[tp[1]][tp[2]].source_node
        rejected == {tp \in ports : source(tp) \notin DOMAIN ns
                                     \/ tp[1] \notin DOMAIN ns}
        targets == {tp[1] : tp \in ports}
    IN  IF rejected # {}
        THEN [raises |-> TRUE,
              node |-> LET tp == CHOOSE tp \in rejected : TRUE
                       IN  IF source(tp) \notin DOMAIN ns THEN source(tp)
                           ELSE tp[1],
              graph |-> EmptyMap]
        ELSE [raises |-> FALSE, node |-> "",
              graph |->
                [nodes |-> ns,
                 connections |->
                   [t \in targets |->
                      [p \in DOMAIN payload.connections[t] |->
                         Connection(payload.connections[t][p].source_node,
                                    payload.connections[t][p].source_port)]],
                 dependents |->
                   [k \in Keys |-> {tp[1] : tp \in {x \in ports : source(x) = k}}],
                 dirty |-> DOMAIN ns]]

\* GraphController.snapshot_graph: _graph_from_dict(_graph_to_dict(graph))
snapshot_graph ==
    LET r == GraphFromDict(GraphToDict(nodes, connections))
    IN  /\ Begin("snapshot_graph", FALSE, {}, FALSE, TRUE, FALSE)
        /\ calls' = calls
        /\ Forget
        /\ result_nodes' = {} /\ index' = 0 /\ log' = <<>>
        /\ execution_order' = <<>>
        /\ pc' = "done"
        /\ outcome' = IF r.raises
                      THEN Error("GraphError", "source_missing", r.node, "")
                      ELSE Ok
        /\ returned' = r.graph

\* Graphs whose nodes carry titles
AddTitled ==
    \E key \in Keys, title \in Titles :
       AddNode(key, [Node(TConstant, InitialValue) EXCEPT !.title = title])

\* A graph under edit and the snapshots taken from it; a snapshot changes
\* nothing in the graph and is followed no further.
NextProject ==
    \/ ops < ProjectOps /\ pc = "idle" /\ Topology
    \/ ops < ProjectOps /\ pc = "idle" /\ AddTitled
    \/ pc = "idle" /\ snapshot_graph

SpecProject == Init /\ [][NextProject]_vars

\* ------------------------------------------------- keys that are reused
\* Nodes are added, wired to the first input port and removed again, so that
\* a key can come back with another type.
Rebuild ==
    \/ \E key \in Keys, type \in Types : add_node(key, type, InitialValue)
    \/ \E key \in Keys : remove_node(key)
    \/ \E s \in Keys, t \in Keys : connect(s, "output", t, "lhs")

\* One scheduler and its cache over such a graph; the configuration of the
\* context decides per call whether memoization is enabled.
NextReuse ==
    \/ ops < ReuseOps /\ Rebuild
    \/ calls < ReuseCalls /\ EvaluateAll
    \/ EvalStep

SpecReuse == Init /\ [][NextReuse]_vars

\* --------------------------------- _make_signature over Python values
\* Python values: an int, or a list, tuple or set of ints; items of a set
\* is the order in which the set is iterated.
PyInt(v) == [kind |-> "int", items |-> <<v>>]
PyList(items) == [kind |-> "list", items |-> items]
PyTuple(items) == [kind |-> "tuple", items |-> items]
PySet(items) == [kind |-> "set", items |-> items]
\* == of Python
PyEqual(a, b) ==
    /\ a.kind = b.kind
    /\ IF a.kind = "set" THEN Range(a.items) = Range(b.items)
       ELSE a.items = b.items

\* A dict is the sequence of its (name, value) items in insertion order.
DictNames(d) == {d[i][1] : i \in DOMAIN d}
DictGet(d, name) == d[CHOOSE i \in DOMAIN d : d[i][1] = name][2]
DictEqual(a, b) ==
    /\ DictNames(a) = DictNames(b)
    /\ \A name \in DictNames(a) : PyEqual(DictGet(a, name), DictGet(b, name))

\* _normalise_value on such a value: an int passes, a list, tuple or set
\* becomes the list of its items in iteration order
NormaliseObject(value) ==
    IF value.kind = "int" THEN value ELSE PyList(value.items)

\* _normalise_value on a dict: the items sorted by str(key); then
\* json.dumps(..., sort_keys=True).  A function has no item order.
NormaliseDict(d) ==
    [name \in DictNames(d) |-> NormaliseObject(DictGet(d, name))]

\* _make_signature(node, inputs) for a Node object; the digest is modelled
\* by the payload it digests
Signature(node, inputs) ==
    [node |-> node.key, type |-> node.type,
     parameters |-> NormaliseDict(node.parameters),
     inputs |-> NormaliseDict(inputs)]

SignValues ==
    {PyInt(1), PyInt(2), PyList(<<1, 2>>), PyTuple(<<1, 2>>),
     PySet(<<1, 2>>), PySet(<<2, 1>>)}
SignParameters ==
    {<<<<"value", v>>>> : v \in SignValues}
      \cup {<<<<"value", PyInt(1)>>, <<"rhs", PyInt(2)>>>>,
             <<<<"rhs", PyInt(2)>>, <<"value", PyInt(1)>>>>}
SignInputs ==
    {<<>>} \cup {<<<<"lhs", v>>>> :
                   v \in {PyInt(1), PyList(<<1, 2>>), PyTuple(<<1, 2>>)}}
\* title, metadata of the node and session state of the context
Decorations ==
    {[title |-> NoTitle, metadata |-> EmptyMap, state |-> EmptyMap],
     [title |-> "Constant", metadata |-> EmptyMap, state |-> EmptyMap],
     [title |-> NoTitle, metadata |-> [note |-> 1], state |-> EmptyMap],
     [title |-> NoTitle, metadata |-> EmptyMap, state |-> [seed |-> 1]]}
SignNodes ==
    {[key |-> k, type |-> t, title |-> d.title, parameters |-> ps,
      metadata |-> d.metadata] :
        k \in {"n1", "n2"}, t \in {TConstant, TAdd}, d \in Decorations,
        ps \in SignParameters}

\* A call of _make_signature as evaluate makes it for a node, under a context
\* with the given session state; log keeps the call and its result.
make_signature(node, inputs, state) ==
    /\ pc \in {"idle", "done"}
    /\ log' = Append(log, [ev |-> "signature", node |-> node,
                           inputs |-> inputs, state |-> state,
                           dirty |-> dirty, cached |-> DOMAIN cache_values,
                           signature |-> Signature(node, inputs)])
    /\ calls' = calls + 1
    /\ UNCHANGED <<graphVars, cacheVars, pc, call, result_nodes,
                   execution_order, index, results, outcome, returned, pre,
                   histVars, used, ops, handlers>>

SignatureCalls ==
    \E node \in SignNodes, inputs \in SignInputs, d \in Decorations :
       /\ node.title = d.title /\ node.metadata = d.metadata
       /\ make_signature(node, inputs, d.state)

\* Signatures computed while the dirty set and the cache change.
NextSignature ==
    \/ calls < SignCalls /\ SignatureCalls
    \/ ops < SignOps /\ add_node("n1", TConstant, InitialValue)
    \/ ops < SignOps /\ Store("n1", CHOOSE x \in Signatures : TRUE,
                               CHOOSE o \in Outputs : TRUE)

SpecSignature == Init /\ [][NextSignature]_vars

\* ======================================================== properties
\* The dependency relation as the connections give it, computed by iteration
\* to a fixed point.
RECURSIVE Closure(_)
Closure(S) ==
    LET more == S \cup UNION {dependencies_of(k) : k \in S}
    IN  IF more = S THEN S ELSE Closure(more)
OnCycle(k) == k \in Closure(dependencies_of(k))
Acyclic == \A k \in Keys : ~OnCycle(k)
Requested == IF call.given THEN call.targets \cap DOMAIN nodes ELSE DOMAIN nodes
NoRepetition(seq) == \A i, j \in DOMAIN seq : i # j => seq[i] # seq[j]
Position(seq, k) == CHOOSE i \in DOMAIN seq : seq[i] = k
Queried == pc = "done" /\ call.op = "topological_order"
Evaluated == pc = "done" /\ call.op = "evaluate"

\* C1: on an acyclic graph topological_order returns, without repetitions,
\* exactly the dependency closure of the requested keys that are nodes (all
\* the nodes when limit_to is omitted), every source before its target.
C1_TopologicalOrderOfClosure ==
    (Queried /\ Acyclic) =>
        /\ outcome.type = "ok"
        /\ NoRepetition(execution_order)
        /\ Range(execution_order) =
              (IF call.given THEN Closure(Requested) ELSE DOMAIN nodes)
        /\ \A t \in Range(execution_order) :
             \A s \in dependencies_of(t) \cap Range(execution_order) :
                Position(execution_order, s) < Position(execution_order, t)

\* C5: the reverse index is the exact transpose of the connections: target is
\* in dependents_of(source) iff a connection stored for target has that source.
C5_DependentsIsTranspose ==
    \A source \in Keys, target \in Keys :
        target \in dependents_of(source) <=> source \in dependencies_of(target)

\* C6: every stored connection references existing nodes, as its source and
\* as the target it is stored under.
C6_ConnectionsReferenceNodes ==
    \A target \in DOMAIN connections :
        /\ target \in DOMAIN nodes
        /\ dependencies_of(target) \subseteq DOMAIN nodes

\* ------------------------------------------------ what a call was seen to do
NodeEvents == SelectSeq(log, LAMBDA e : e.ev \in {"hit", "invoke"})
Count(seq, k) == Cardinality({i \in DOMAIN seq : seq[i].node = k})
Succeeded == Evaluated /\ outcome.type = "ok"
\* the input values of a processed node, from the results of this pass
InputsOf(k) ==
    [p \in DOMAIN inputs_for(k) |->
        SourceOutputs(inputs_for(k)[p].source_node, results).val[
            inputs_for(k)[p].source_port]]
\* the call that just returned repeats the call before it on an untouched graph
SecondRun ==
    /\ Succeeded
    /\ prev.valid /\ prev.ok /\ upd = <<>>
    /\ call.given = prev.given /\ call.targets = prev.targets
    /\ call.memo /\ prev.memo /\ ~call.force /\ ~prev.force

\* C2 as stated: over two consecutive evaluations of an untouched graph each
\* handler of the closure is invoked exactly once, in the first call, and the
\* second call returns the same outputs.
C2_EachHandlerExactlyOnce ==
    SecondRun =>
        /\ Invoked(log) = <<>>
        /\ returned = prev.returned
        /\ \A n \in Range(execution_order) : Count(prev.invoked, n) = 1

\* C2 as amended: the second call invokes no handler and returns the same
\* outputs; the first call invokes each handler of the closure at most once,
\* and exactly once when the cache held no entry for the node before it.
C2_SecondRunInvokesNothing ==
    SecondRun =>
        /\ Invoked(log) = <<>>
        /\ returned = prev.returned
        /\ \A n \in Range(execution_order) :
             /\ Count(prev.invoked, n) <= 1
             /\ (n \in prev.uncached => Count(prev.invoked, n) = 1)

C2_Witness ==
    /\ SecondRun
    /\ Cardinality(Range(execution_order)) >= 2
    /\ Len(prev.invoked) >= 2
    /\ \E n \in Range(execution_order) : dependencies_of(n) # {}

\* C3: a processed node reuses its cached output iff force is false,
\* memoization is enabled, the node was not dirty and the stored signature
\* equals the one computed from its parameters and inputs; otherwise its
\* handler is invoked; either way once per pass.
C3_ReuseIffAllFour ==
    call.op = "evaluate" =>
        \A i \in DOMAIN NodeEvents :
            LET k == NodeEvents[i].node
                signature == MakeSignature(k, nodes[k], InputsOf(k))
            IN  /\ (NodeEvents[i].ev = "hit") <=>
                       /\ ~call.force
                       /\ call.memo
                       /\ k \notin pre.dirty
                       /\ k \in DOMAIN pre.signatures
                       /\ pre.signatures[k] = signature
                /\ Count(NodeEvents, k) = 1

C3_Witness ==
    /\ Succeeded
    /\ \E i, j \in DOMAIN NodeEvents :
         /\ NodeEvents[i].ev = "hit"
         /\ NodeEvents[j].ev = "invoke"
         /\ NodeEvents[j].node \in DOMAIN pre.signatures

\* C7: when a cycle is reachable from the requested targets, topological_order
\* raises the cycle error and so does evaluate, which then has invoked no
\* handler, called no progress callback and left cache and dirty set as found.
CycleReachable(requested) == \E k \in Closure(requested) : OnCycle(k)
C7_CycleFailsWithoutEffects ==
    /\ pc = "idle" =>
         /\ \A limit_to \in SUBSET Keys :
               CycleReachable(limit_to \cap DOMAIN nodes) =>
                  topological_order(TRUE, limit_to) = {}
         /\ CycleReachable(DOMAIN nodes) => topological_order(FALSE, {}) = {}
    /\ (call.op = "evaluate" /\ CycleReachable(Requested)) =>
         /\ pc = "done"
         /\ outcome = Error("GraphError", "cycle", "", "")
         /\ log = <<>>
         /\ results = EmptyMap
         /\ returned = EmptyMap
         /\ cache_values = pre.values
         /\ cache_signatures = pre.signatures
         /\ dirty = pre.dirty

C7_Witness ==
    /\ Evaluated
    /\ CycleReachable(Requested)
    /\ call.progress
    /\ pre.values # EmptyMap
    /\ pre.dirty # {}

\* C9 as stated: a successful evaluate returns exactly the requested targets
\* that are nodes; the nodes of the closure beyond them are evaluated and
\* cached but not returned.
C9_ReturnsTargetsCachesDependencies ==
    Succeeded =>
        /\ DOMAIN returned = Requested
        /\ \A d \in Closure(Requested) \ Requested :
             /\ Count(NodeEvents, d) = 1
             /\ d \in DOMAIN cache_values
             /\ d \notin DOMAIN returned

\* C9 as amended: the nodes of the closure beyond the targets are evaluated,
\* and cached when memoization is enabled, but not returned.
C9_ReturnsExactlyTargets ==
    Succeeded =>
        /\ DOMAIN returned = Requested
        /\ \A n \in Requested : returned[n] = results[n]
        /\ \A d \in Closure(Requested) \ Requested :
             /\ Count(NodeEvents, d) = 1
             /\ (call.memo => d \in DOMAIN cache_values)
             /\ d \notin DOMAIN returned

C9_Witness ==
    /\ Succeeded
    /\ call.given
    /\ call.memo
    /\ call.targets \ DOMAIN nodes # {}
    /\ Requested # {}
    /\ Closure(Requested) # Requested

\* C10: inside evaluate the nodes are processed one at a time in the computed
\* order, and a node is processed only when every dependency has completed in
\* this call and has its outputs in the pass-local results.
C10_DependenciesRecordedFirst ==
    call.op = "evaluate" =>
        /\ pc = "running" =>
              /\ Len(NodeEvents) = index - 1
              /\ dependencies_of(execution_order[index]) \subseteq DOMAIN results
        /\ \A i \in DOMAIN NodeEvents :
              LET k == NodeEvents[i].node
              IN  /\ k = execution_order[i]
                  /\ k \in DOMAIN results
                  /\ \A d \in dependencies_of(k) :
                        \E j \in 1..(i - 1) : NodeEvents[j].node = d

C10_Witness ==
    /\ Succeeded
    /\ Len(NodeEvents) = 3
    /\ \E a \in Keys, b \in Keys, c \in Keys :
         /\ a \in dependencies_of(b) /\ b \in dependencies_of(c)
         /\ execution_order = <<a, b, c>>
         /\ KeyNo[a] > KeyNo[c]

\* C4: after one parameter of n was changed and n marked dirty, the next
\* successful evaluate covering n invokes the handler of n and stores a
\* different signature for n, while a node cached by the call before that does
\* not depend on n keeps its cache entry and is not invoked.
DependsOn(m, n) == n \in Closure(dependencies_of(m))
C4_EditRecomputesOnlyDownstream ==
    (/\ Succeeded /\ call.memo /\ ~call.force
     /\ prev.valid /\ prev.ok /\ prev.memo
     /\ Len(upd) = 1 /\ upd[1] \in Range(execution_order)) =>
        LET n == upd[1]
        IN  /\ \E i \in DOMAIN log : log[i] = Event("invoke", n, log[i].i, log[i].total)
            /\ n \in DOMAIN pre.signatures =>
                  cache_signatures[n] # pre.signatures[n]
            /\ \A m \in (prev.order \cap Range(execution_order)) \ {n} :
                  ~DependsOn(m, n) =>
                     /\ \A i \in DOMAIN log :
                           log[i].node = m => log[i].ev # "invoke"
                     /\ cache_signatures[m] = pre.signatures[m]
                     /\ cache_values[m] = pre.values[m]

\* C8: when a connection feeding a node names a source that is no longer a
\* node, evaluate of that node ends with the scheduler's missing-dependency
\* error, which names the missing producer and the consumer.
MissingProducers(t) == dependencies_of(t) \ DOMAIN nodes
C8_RemovedSourceIsMissingDependency ==
    (/\ Evaluated /\ Acyclic
     /\ \E t \in Closure(Requested) \cap DOMAIN nodes : MissingProducers(t) # {}) =>
        /\ outcome.type = "SchedulerError"
        /\ outcome.kind = "missing_outputs"
        /\ outcome.node \in DOMAIN nodes
        /\ outcome.source \in MissingProducers(outcome.node)

\* ------------------------------------------------------ progress protocol
ProgressCalls == SelectSeq(log, LAMBDA e : e.ev = "progress")
\* the callback was called with exactly (i, total, node_key)
CalledWith(e, i, total, node_key) ==
    e.ev = "progress" /\ e.i = i /\ e.total = total /\ e.node = node_key
\* the call got as far as computing its execution order
OrderComputed ==
    /\ call.op = "evaluate"
    /\ Requested # {}
    /\ outcome # Error("GraphError", "cycle", "", "")

\* C11: with a progress callback, once the execution order is computed the
\* callback is called with (0, total, "") before any node is processed and
\* once after each completed node with (i, total, node_key), i = 1, 2, ... in
\* execution order, total being the size of the dependency closure; a
\* successful call makes total + 1 calls, a call failing at position i makes
\* the calls 0 .. i-1 only.
C11_ProgressProtocol ==
    (OrderComputed /\ call.progress) =>
        LET total == Len(execution_order)
        IN  /\ total = Cardinality(Closure(Requested))
            /\ Len(ProgressCalls) = Len(NodeEvents) + 1
            /\ Len(log) = Len(ProgressCalls) + Len(NodeEvents)
            /\ CalledWith(log[1], 0, total, "")
            /\ \A i \in DOMAIN NodeEvents :
                  /\ log[i + i] = NodeEvents[i]
                  /\ NodeEvents[i].node = execution_order[i]
                  /\ CalledWith(log[i + i + 1], i, total, execution_order[i])
            /\ Succeeded => Len(ProgressCalls) = total + 1
            /\ (pc = "done" /\ outcome.type # "ok") =>
                  /\ Len(ProgressCalls) = index
                  /\ index \in 1..total

C11_Witness ==
    /\ Evaluated
    /\ call.progress
    /\ outcome.type = "SchedulerError"
    /\ index = 2
    /\ Len(ProgressCalls) = 2
    /\ \E e \in Range(log) : e.ev = "hit"

\* C12: when no requested target is a node (or the graph has no nodes),
\* evaluate returns an empty mapping at once: no handler invoked, no progress
\* call, cache and dirty set as found.
C12_EmptyTargetsReturnAtOnce ==
    (call.op = "evaluate" /\ Requested = {}) =>
        /\ pc = "done"
        /\ outcome = Ok
        /\ returned = EmptyMap
        /\ log = <<>>
        /\ results = EmptyMap
        /\ cache_values = pre.values
        /\ cache_signatures = pre.signatures
        /\ dirty = pre.dirty

C12_Witness ==
    /\ Evaluated
    /\ Requested = {}
    /\ call.given /\ call.targets # {}
    /\ call.progress
    /\ DOMAIN nodes # {}
    /\ pre.values # EmptyMap
    /\ pre.dirty # {}

\* ------------------------------------------------------------- failures
\* C13: every failure of evaluate is a GraphError or a SchedulerError, also
\* for a node whose type is not registered.
C13_FailuresAreTyped ==
    Evaluated => outcome.type \in {"ok", "GraphError", "SchedulerError"}

\* the nodes whose handler raises when it is called
Raising == {k \in DOMAIN nodes : nodes[k].type = TBoxBlur}

\* every input of k can be read from the outputs of its source
InputsReady(k) ==
    \A p \in DOMAIN inputs_for(k) :
        LET src == SourceOutputs(inputs_for(k)[p].source_node, results)
        IN  src.some /\ inputs_for(k)[p].source_port \in DOMAIN src.val

\* C14: an exception of a node's handler ends evaluate with a SchedulerError
\* that carries the node's key and the original message; the node's outputs
\* are neither cached (the cache holds for its key what it held before the
\* call) nor returned and its dirty flag stays.
C14_HandlerExceptionIsWrapped ==
    call.op = "evaluate" =>
        /\ \A e \in Range(log) : e.node \notin Raising
        /\ Succeeded => Range(execution_order) \cap Raising = {}
        /\ outcome.kind = "node_failed" =>
              /\ pc = "done"
              /\ outcome.node = execution_order[index]
              /\ outcome.node \in Raising
        /\ (pc = "done" /\ outcome.type # "ok" /\ index > 0
             /\ execution_order[index] \in Raising
             /\ InputsReady(execution_order[index])) =>
              LET k == execution_order[index]
              IN  /\ outcome = NodeFailed(k, <<"expected a HeightMap input", k>>)
                  /\ cache_get(cache_values, k) = cache_get(pre.values, k)
                  /\ cache_get(cache_signatures, k) = cache_get(pre.signatures, k)
                  /\ k \notin DOMAIN results
                  /\ returned = EmptyMap
                  /\ k \in pre.dirty
                  /\ k \in dirty

C14_Witness ==
    /\ Evaluated
    /\ outcome.kind = "node_failed"
    /\ index = 2
    /\ call.memo
    /\ dependencies_of(outcome.node) # {}
    /\ DOMAIN cache_values # {}

\* ------------------------------------------------------------ dirty set
\* the nodes evaluate has completed so far in the call
Completed == {NodeEvents[i].node : i \in DOMAIN NodeEvents}

\* C15: no graph mutation removes a key from the dirty set; evaluate removes
\* one key at a time, the node it has just completed, so that the dirty set
\* is the one found at the start minus the completed nodes: minus the whole
\* execution order on success, minus the nodes before position i on a failure
\* at position i.
C15_DirtyShrinksOnlyByClearDirty ==
    [][/\ ops' # ops => dirty \subseteq dirty'
       /\ call'.op = "topological_order" => dirty' = dirty
       /\ call'.op = "evaluate" =>
             /\ dirty' \subseteq dirty
             /\ pc = "running" =>
                   /\ dirty \ dirty' \subseteq {execution_order[index]}
                   /\ dirty \ dirty' \subseteq DOMAIN results'
             /\ pc # "running" => dirty' = dirty
             /\ dirty' = pre'.dirty \ Completed'
             /\ Completed' \subseteq DOMAIN results'
             /\ (pc' = "done" /\ outcome'.type = "ok") =>
                   dirty' = pre'.dirty \ Range(execution_order')
             /\ (pc' = "done" /\ outcome'.type # "ok" /\ index' > 0) =>
                   dirty' = pre'.dirty \
                              {execution_order'[i] : i \in 1..(index' - 1)}
      ]_vars

C15_Witness ==
    /\ Evaluated
    /\ outcome.type = "SchedulerError"
    /\ index = 2
    /\ Range(execution_order) \subseteq pre.dirty
    /\ pre.dirty \ Range(execution_order) # {}
    /\ dirty = pre.dirty \ {execution_order[1]}

\* the nodes that have an input connection whose source is n
Consumers(n) == {t \in Keys : n \in dependencies_of(t)}

\* C16: mark_dirty(n) on a node n adds to the dirty set n and the nodes that
\* consume an output of n, and nothing else.
C16_MarkDirtyAddsConsumers ==
    [][\A n \in Keys :
          (MarkDirty(n) \/ \E value \in Values : UpdateParameters(n, value)) =>
              dirty' = dirty \cup {n} \cup Consumers(n)
      ]_vars

\* ------------------------------------------------------------- mutators
\* C17: after connect(source_node, source_port, target_node, target_port)
\* the target port holds exactly that connection (whatever it held before),
\* every other port of every node holds what it held, and target_node is
\* dirty.
C17_ConnectLastWriteWins ==
    [][\A s \in Keys, t \in Keys, port \in Ports :
          connect(s, "output", t, port) =>
              /\ port \in DOMAIN InputsIn(connections', t)
              /\ InputsIn(connections', t)[port] =
                    [source_node |-> s, source_port |-> "output"]
              /\ \A t2 \in Keys, p2 \in Ports :
                    <<t2, p2>> # <<t, port>> =>
                       /\ p2 \in DOMAIN InputsIn(connections', t2)
                            <=> p2 \in DOMAIN inputs_for(t2)
                       /\ p2 \in DOMAIN inputs_for(t2) =>
                            InputsIn(connections', t2)[p2] = inputs_for(t2)[p2]
              /\ DOMAIN InputsIn(connections', t) \subseteq Ports
              /\ t \in dirty'
      ]_vars

\* a port was connected to one source and then to another: the reverse index
\* still remembers the first
C17_Witness ==
    \E s \in DOMAIN nodes, t \in DOMAIN nodes :
        /\ DOMAIN inputs_for(t) = Ports
        /\ Cardinality(dependencies_of(t)) = 2
        /\ t \in dependents[s]
        /\ s \notin dependencies_of(t)
        /\ t \in dirty

\* C18: add_node with a key already present, remove_node of an absent key
\* and connect with an absent endpoint end with GraphError and leave nodes,
\* connections, reverse index and dirty set as they were; none of them goes
\* through.
C18_RejectedMutationsChangeNothing ==
    [][/\ \A key \in DOMAIN nodes, type \in Types \cup FaultTypes, value \in Values :
             ~add_node(key, type, value)
       /\ \A key \in Keys \ DOMAIN nodes :
             /\ ~remove_node(key)
             /\ \A other \in Keys, port \in Ports :
                   /\ ~connect(key, "output", other, port)
                   /\ ~connect(other, "output", key, port)
       /\ call'.op \in {"add_node", "remove_node", "connect"} =>
             /\ outcome'.type = "GraphError"
             /\ nodes' = nodes
             /\ connections' = connections
             /\ dependents' = dependents
             /\ dirty' = dirty
             /\ (call'.op = "add_node") = (outcome'.node \in DOMAIN nodes)
      ]_vars

C18_Witness ==
    /\ pc = "done"
    /\ call.op = "connect"
    /\ outcome = Error("GraphError", "absent_target", "", "n3")
    /\ connections # EmptyMap
    /\ "n3" \in dirty

\* C19: after remove_node(k) of a node k, k is not a node and k is in the
\* dirty set, whatever it was before.
C19_RemovedKeyIsDirty ==
    [][\A k \in Keys :
          remove_node(k) => (k \notin DOMAIN nodes' /\ k \in dirty')
      ]_vars

\* C20: evaluate, successful or failing, leaves the nodes with their types
\* and parameters, the connections and the reverse index as they were; of
\* the graph it changes the dirty set only.
C20_EvaluateKeepsTopology ==
    [][(pc = "running" \/ calls' # calls) =>
          /\ call'.op = "evaluate"
          /\ nodes' = nodes
          /\ connections' = connections
          /\ dependents' = dependents
      ]_vars

C20_Witness ==
    /\ Evaluated
    /\ outcome.type \notin {"ok", "GraphError"}
    /\ dirty # pre.dirty
    /\ connections # EmptyMap

\* ------------------------------------------------------------------ C21
\* The direct calls of the cache in the order they were made, when nothing
\* else has touched the cache since construction.
HistoryComplete == calls = 0 /\ Len(log) = ops
Concerns(e, k) == e.ev = "clear" \/ e.node = k
RECURSIVE LastConcerning(_, _)
LastConcerning(l, k) ==
    IF l = <<>> THEN [ev |-> "none", node |-> k]
    ELSE IF Concerns(l[Len(l)], k) THEN l[Len(l)]
    ELSE LastConcerning(SubSeq(l, 1, Len(l) - 1), k)

\* C21: after any sequence of store, invalidate and clear, is_valid(k, s)
\* holds exactly when the last call that concerns k (a store for k, an
\* invalidate of k, or a clear) is a store of s, and get(k) then returns the
\* outputs of that store; after an invalidate of k or a clear, k has neither
\* a signature nor outputs, while the entries of the keys an invalidate did
\* not name are as their own last call left them.
C21_CacheFollowsLastCall ==
    HistoryComplete =>
      \A k \in Keys :
        LET last == LastConcerning(log, k)
        IN  /\ \A s \in Signatures :
                 is_valid(cache_signatures, k, s)
                   <=> (last.ev = "store" /\ last.signature = s)
            /\ IF last.ev = "store"
               THEN /\ cache_get(cache_values, k).some
                    /\ cache_get(cache_values, k).val = last.outputs
                    /\ cache_signatures[k] = last.signature
               ELSE /\ ~cache_get(cache_values, k).some
                    /\ k \notin DOMAIN cache_signatures

\* a store overwritten by a second store with another signature, and an
\* invalidate of one key that leaves the entry of another
C21_Witness ==
    /\ HistoryComplete
    /\ Len(log) = 4
    /\ log[1].ev = "store" /\ log[2].ev = "store" /\ log[3].ev = "store"
    /\ log[1].node = log[2].node
    /\ log[1].signature # log[2].signature
    /\ log[1].outputs # log[2].outputs
    /\ log[3].node # log[1].node
    /\ log[4].ev = "invalidate" /\ log[4].node = log[3].node
    /\ is_valid(cache_signatures, log[2].node, log[2].signature)
    /\ log[3].node \notin DOMAIN cache_values

\* ------------------------------------------------------------------ C30
\* C30: a key has a stored signature exactly when it has stored outputs, so
\* a valid signature always comes with outputs and no evaluate call ends
\* with "Cache miss for node ...".
C30_NoCacheMiss ==
    /\ DOMAIN cache_signatures = DOMAIN cache_values
    /\ \A k \in Keys : \A s \in Signatures \cup Range(cache_signatures) :
         is_valid(cache_signatures, k, s) => cache_get(cache_values, k).some
    /\ outcome.kind # "cache_miss"

\* an evaluate call that reuses one entry and recomputes a clean node whose
\* entry a direct call has removed
C30_Witness ==
    /\ pc = "done" /\ outcome = Ok
    /\ \E e \in Range(log) : e.ev = "hit"
    /\ \E e \in Range(log) :
         /\ e.ev = "invoke"
         /\ e.node \notin pre.dirty
         /\ e.node \notin DOMAIN pre.signatures

\* ------------------------------------------------------------------ C22
\* Names that are equal up to letter case, listed without reference to the
\* conversion the registry applies.
CaseVariants ==
    {{"custom.node", "Custom.Node", "CUSTOM.NODE"},
     {"test.constant", "Test.Constant"},
     {"primitives.constant", "Primitives.Constant"}}
SameUpToCase(a, b) == a = b \/ \E V \in CaseVariants : a \in V /\ b \in V
Minimum(S) == CHOOSE i \in S : \A j \in S : i <= j

\* The definition a name stands for after the calls of l: the one the
\* registry was built with, else the one of the first register call under a
\* name equal to it up to letter case.
RegisteredAs(l, t) ==
    LET built == {u \in DOMAIN InitialHandlers : SameUpToCase(u, t)}
        made == {i \in 1..Len(l) : /\ l[i].ev = "register"
                                   /\ SameUpToCase(l[i].node, t)}
    IN  IF built # {}
        THEN [some |-> TRUE, val |-> InitialHandlers[CHOOSE u \in built : TRUE]]
        ELSE IF made # {}
        THEN [some |-> TRUE,
              val |-> [handler |-> l[Minimum(made)].handler,
                       metadata |-> l[Minimum(made)].metadata]]
        ELSE [some |-> FALSE, val |-> [handler |-> "", metadata |-> NoMetadata]]
LastCall == log[Len(log)]
Before == SubSeq(log, 1, Len(log) - 1)
RegistryCalled(ev) == log # <<>> /\ call.op = ev /\ LastCall.ev = ev

\* C22: register(t, h) ends with RegistryError exactly when a name equal to
\* t up to letter case is registered already, and then the registry is as
\* it was; so every name stands for the definition of its first
\* registration.  get(t) returns that definition under every case variant
\* of t and ends with RegistryError when there is none.
C22_NamesCaseInsensitiveUnique ==
    /\ \A key \in DOMAIN handlers :
         /\ RegisteredAs(log, key).some
         /\ handlers[key] = RegisteredAs(log, key).val
    /\ \A t \in RegistryNames :
         RegisteredAs(log, t).some =>
            \E key \in DOMAIN handlers : SameUpToCase(key, t)
    /\ \A u, v \in DOMAIN handlers : SameUpToCase(u, v) => u = v
    /\ RegistryCalled("register") =>
         (outcome.type = "RegistryError"
            <=> RegisteredAs(Before, LastCall.node).some)
    /\ RegistryCalled("register") => outcome.type \in {"RegistryError", "ok"}
    /\ RegistryCalled("get") =>
         IF RegisteredAs(Before, LastCall.node).some
         THEN /\ outcome = Ok
              /\ returned = RegisteredAs(Before, LastCall.node).val
         ELSE outcome.type = "RegistryError"

\* a registration, a second one under another spelling of the name with
\* another handler, and a get under a third spelling that returns the first
C22_Witness ==
    /\ Len(log) = 3
    /\ log[1].ev = "register" /\ log[2].ev = "register"
    /\ log[1].node # log[2].node
    /\ SameUpToCase(log[1].node, log[2].node)
    /\ log[1].handler # log[2].handler
    /\ RegistryCalled("get")
    /\ log[3].node \notin {log[1].node, log[2].node}
    /\ SameUpToCase(log[3].node, log[1].node)
    /\ outcome = Ok
    /\ returned.handler = log[1].handler

\* ------------------------------------------------------------------ C23
\* C23: describe(t) returns the metadata t was registered with, and ends
\* with RegistryError when t is not registered or was registered without
\* metadata; metadata() yields the metadata of the registered types that
\* have one, and nothing else.
C23_DescribeNeedsMetadata ==
    /\ RegistryCalled("describe") =>
         LET r == RegisteredAs(Before, LastCall.node)
         IN  IF r.some /\ r.val.metadata.some
             THEN outcome = Ok /\ returned = r.val.metadata
             ELSE /\ outcome.type = "RegistryError"
                  /\ outcome.kind = IF r.some THEN "no_metadata"
                                    ELSE "no_handler"
    /\ RegistryCalled("metadata") =>
         /\ outcome = Ok
         /\ returned =
              {RegisteredAs(Before, t).val.metadata :
                 t \in {u \in RegistryNames \cup Registered :
                          /\ RegisteredAs(Before, u).some
                          /\ RegisteredAs(Before, u).val.metadata.some}}

\* describe, under another spelling, of a type registered without metadata,
\* in a registry that holds types with metadata too
C23_Witness ==
    /\ Len(log) = 3
    /\ log[1].ev = "register" /\ ~log[1].metadata.some
    /\ log[2].ev = "register" /\ log[2].metadata.some
    /\ ~SameUpToCase(log[1].node, log[2].node)
    /\ Lower(log[2].node) \in DOMAIN handlers
    /\ handlers[Lower(log[2].node)].metadata.some
    /\ RegistryCalled("describe")
    /\ log[3].node # log[1].node
    /\ SameUpToCase(log[3].node, log[1].node)
    /\ outcome.type = "RegistryError" /\ outcome.kind = "no_metadata"

\* ------------------------------------------------------------------ C24
\* The connections of a graph as a set of (target, port, source, port)
ConnectionSet(conns) ==
    {<<t, p, conns[t][p].source_node, conns[t][p].source_port>> :
        <<t, p>> \in {tp \in Keys \X Ports : /\ tp[1] \in DOMAIN conns
                                            /\ tp[2] \in DOMAIN conns[tp[1]]}}
Snapshot == pc = "done" /\ call.op = "snapshot_graph"

\* C24: for every graph the mutators can build, _graph_from_dict applied to
\* _graph_to_dict succeeds and returns a graph with the same node keys, the
\* same type, title and parameter values for every node, and the same set
\* of connections.
C24_RoundTripReconstructs ==
    Snapshot =>
       /\ outcome = Ok
       /\ DOMAIN returned.nodes = DOMAIN nodes
       /\ \A k \in DOMAIN nodes :
            /\ returned.nodes[k].type = nodes[k].type
            /\ returned.nodes[k].title = nodes[k].title
            /\ returned.nodes[k].parameters = nodes[k].parameters
       /\ ConnectionSet(returned.connections) = ConnectionSet(connections)

\* ------------------------------------------------------------------ C25
\* The node the loop of evaluate is at, and the steps in which its inputs
\* were gathered (the step did not end in _collect_inputs)
Current == execution_order[index]
Gathered ==
    /\ EvalStep
    /\ Current \in DOMAIN nodes
    /\ outcome'.kind \notin {"missing_outputs", "missing_port"}

\* C25: whenever the inputs of a node have been gathered, every connected
\* port (s, p) of it was given output p of the outputs s produced earlier in
\* this pass, and never the outputs of a cache entry of s that differs from
\* them.
C25_InputsComeFromThisPass ==
    [][Gathered =>
         \A port \in DOMAIN inputs_for(Current) :
            LET c == inputs_for(Current)[port]
                passed == SourceOutputs(c.source_node, results)
            IN  /\ c.source_node \in DOMAIN results
                /\ passed.val = results[c.source_node]
                /\ c.source_port \in DOMAIN results[c.source_node]
                /\ passed.val[c.source_port]
                     = results[c.source_node][c.source_port]]_vars

\* ------------------------------------------------------------------ C28
\* evaluate on the graph as it is with an empty cache: every node of the
\* closure is invoked on the outputs of its sources
RECURSIVE FromScratch(_)
FromScratch(k) ==
    LET conns == inputs_for(k)
        src(p) == FromScratch(conns[p].source_node)
        failed == {p \in DOMAIN conns :
                     \/ conns[p].source_node \notin DOMAIN nodes
                     \/ ~src(p).ok
                     \/ conns[p].source_port \notin DOMAIN src(p).val}
        inputs == [p \in DOMAIN conns |-> src(p).val[conns[p].source_port]]
        result == Invoke(nodes[k].type, k, nodes[k].parameters, inputs)
    IN  IF failed # {} \/ nodes[k].type \notin Registered
        THEN [ok |-> FALSE, val |-> EmptyMap]
        ELSE IF result.kind # "mapping" THEN [ok |-> FALSE, val |-> EmptyMap]
        ELSE [ok |-> TRUE, val |-> result.val]

\* C28: a successful evaluate returns for every target the outputs that an
\* evaluation of the same graph with an empty cache returns, whatever
\* mutations and evaluate calls came before.
C28_SameAsFromScratch ==
    Succeeded =>
       \A t \in DOMAIN returned :
          /\ FromScratch(t).ok
          /\ returned[t] = FromScratch(t).val

\* ------------------------------------------------------------------ C26
\* C26: in every state, also after an evaluate call that raised, the
\* outputs of a cache entry of k are what the handler of the type in its
\* signature returns for the parameters and input values in its signature,
\* and that signature is one of key k.
C26_EntriesMatchTheirSignature ==
    \A k \in DOMAIN cache_signatures :
       LET sig == cache_signatures[k]
       IN  /\ sig.node = k
           /\ cache_get(cache_values, k).some
           /\ Invoke(sig.type, k, sig.parameters, sig.inputs).kind = "mapping"
           /\ cache_values[k] = Handler(sig.type, sig.parameters, sig.inputs)

\* an evaluate call that raised after it had stored an entry, in a cache that
\* holds an entry computed from an input value
C26_Witness ==
    /\ Evaluated
    /\ outcome.type = "SchedulerError"
    /\ DOMAIN cache_signatures \ DOMAIN pre.signatures # {}
    /\ \E k \in DOMAIN cache_signatures :
         /\ cache_signatures[k].inputs # EmptyMap
         /\ cache_values[k] # Handler(cache_signatures[k].type,
                                      cache_signatures[k].parameters, EmptyMap)

\* ------------------------------------------------------------------ C29
\* C29: during and after evaluate(targets), only nodes of the dependency
\* closure of the targets that exist have had their handler invoked or
\* their entry reused; every other key has the cache entry and the dirty
\* flag it had when the call began; and the call fails with a cycle error
\* only when a cycle is reachable from those targets.
C29_OutsideClosureUntouched ==
    (call.op = "evaluate" /\ pc \in {"running", "done"}) =>
       LET inside == Closure(Requested)
       IN  /\ \A e \in Range(log) :
                e.ev \in {"invoke", "hit"} => e.node \in inside
           /\ DOMAIN results \subseteq inside
           /\ \A k \in Keys \ inside :
                /\ cache_get(cache_values, k) = cache_get(pre.values, k)
                /\ (k \in DOMAIN cache_signatures
                      <=> k \in DOMAIN pre.signatures)
                /\ k \in DOMAIN cache_signatures =>
                      cache_signatures[k] = pre.signatures[k]
                /\ (k \in dirty <=> k \in pre.dirty)
           /\ outcome.kind = "cycle" => CycleReachable(Requested)

\* a successful evaluate of one target beside a dirty node that has a cache
\* entry and lies on a cycle
C29_Witness ==
    /\ Succeeded
    /\ call.given
    /\ \E e \in Range(log) : e.ev = "invoke"
    /\ \E k \in DOMAIN nodes \ Closure(Requested) :
         /\ OnCycle(k)
         /\ k \in dirty
         /\ k \in DOMAIN cache_values

\* ------------------------------------------------------------------ C27
SignatureCallsMade == SelectSeq(log, SignatureEvent)
\* two calls agree on key, type, parameter mapping and input values
Agree(a, b) ==
    /\ a.node.key = b.node.key
    /\ a.node.type = b.node.type
    /\ DictEqual(a.node.parameters, b.node.parameters)
    /\ DictEqual(a.inputs, b.inputs)

\* C27: two signature computations give the same signature exactly when
\* they agree on the key, the type, the parameter mapping (in whatever
\* order its items were inserted) and the input values -- whatever title,
\* metadata, session state, dirty set and cache they were made under; so a
\* changed parameter or input value gives another signature.
C27_SignatureOfTheFour ==
    \A i, j \in DOMAIN SignatureCallsMade :
       LET a == SignatureCallsMade[i]
           b == SignatureCallsMade[j]
       IN  Agree(a, b) <=> a.signature = b.signature
====
